---- MODULE Spec2Model ----
(***************************************************************************)
(* Monotonic Chunkwise Attention (MoChA) demo notebook, src/Demo.ipynb.    *)
(*                                                                         *)
(* The notebook defines four functions over (batch, T) tensors:            *)
(*   moving_sum, efficient_chunkwise_attention,                            *)
(*   moving_max, stable_chunkwise_attention                                *)
(* and a demo cell that builds both attention graphs over two variables,   *)
(* runs them, overwrites part of one row of the logits and runs again.     *)
(*                                                                         *)
(* Arithmetic is exact.  A tensor element is an extended rational          *)
(* [s, n, d]: sign s, numerator n and denominator d, both arbitrary        *)
(* precision naturals (little-endian limb sequences).  d = 0 encodes the   *)
(* IEEE specials: 1/0 is infinity (signed), 0/0 is NaN.  Logits are        *)
(* measured in units of ln(10), so that exp of a logit k is exactly 10^k   *)
(* and the clamp floor 1e-5 of the source is exactly 1/100000.             *)
(***************************************************************************)
EXTENDS Integers, Sequences, FiniteSets, TLC

(***************************************************************************)
(* Arbitrary precision naturals.                                           *)
(***************************************************************************)
LimbBase == 10 * 10 * 10

NatOne == <<1>>

Limb(a, i) == IF i <= Len(a) THEN a[i] ELSE 0

MaxOf(i, j) == IF i >= j THEN i ELSE j
MinOf(i, j) == IF i <= j THEN i ELSE j

RECURSIVE NatTrim(_)
NatTrim(a) ==
    IF a = << >> THEN a
    ELSE IF a[Len(a)] = 0 THEN NatTrim(SubSeq(a, 1, Len(a) - 1))
    ELSE a

RECURSIVE NatFromInt(_)
NatFromInt(k) ==
    IF k = 0 THEN << >> ELSE <<k % LimbBase>> \o NatFromInt(k \div LimbBase)

RECURSIVE NatToInt(_)
NatToInt(a) ==
    IF a = << >> THEN 0 ELSE a[1] + LimbBase * NatToInt(Tail(a))

RECURSIVE NatAddFrom(_, _, _, _)
NatAddFrom(a, b, i, c) ==
    IF i > MaxOf(Len(a), Len(b))
    THEN (IF c = 0 THEN << >> ELSE <<c>>)
    ELSE LET s == Limb(a, i) + Limb(b, i) + c
         IN  <<s % LimbBase>> \o NatAddFrom(a, b, i + 1, s \div LimbBase)

NatAdd(a, b) ==
    IF a = << >> THEN b ELSE IF b = << >> THEN a ELSE NatAddFrom(a, b, 1, 0)

RECURSIVE NatSubFrom(_, _, _, _)
NatSubFrom(a, b, i, c) ==
    IF i > Len(a) THEN << >>
    ELSE LET s == a[i] - Limb(b, i) - c
         IN  IF s < 0
             THEN <<s + LimbBase>> \o NatSubFrom(a, b, i + 1, 1)
             ELSE <<s>> \o NatSubFrom(a, b, i + 1, 0)

\* a - b for a >= b
NatSub(a, b) == IF b = << >> THEN a ELSE NatTrim(NatSubFrom(a, b, 1, 0))

RECURSIVE NatColumn(_, _, _, _)
NatColumn(a, b, k, i) ==
    IF i > Len(a) \/ i > k THEN 0
    ELSE (IF k - i + 1 <= Len(b) THEN a[i] * b[k - i + 1] ELSE 0)
         + NatColumn(a, b, k, i + 1)

RECURSIVE NatMulFrom(_, _, _, _)
NatMulFrom(a, b, k, c) ==
    IF k > Len(a) + Len(b) THEN << >>
    ELSE LET s == NatColumn(a, b, k, MaxOf(1, k + 1 - Len(b))) + c
         IN  <<s % LimbBase>> \o NatMulFrom(a, b, k + 1, s \div LimbBase)

NatMul(a, b) ==
    IF a = << >> \/ b = << >> THEN << >>
    ELSE IF a = <<1>> THEN b
    ELSE IF b = <<1>> THEN a
    ELSE NatTrim(NatMulFrom(a, b, 1, 0))

RECURSIVE NatCmpFrom(_, _, _)
NatCmpFrom(a, b, i) ==
    IF i = 0 THEN 0
    ELSE IF a[i] < b[i] THEN -1
    ELSE IF a[i] > b[i] THEN 1
    ELSE NatCmpFrom(a, b, i - 1)

\* -1, 0, 1 as a < b, a = b, a > b
NatCmp(a, b) ==
    IF Len(a) < Len(b) THEN -1
    ELSE IF Len(a) > Len(b) THEN 1
    ELSE NatCmpFrom(a, b, Len(a))

RECURSIVE NatModFrom(_, _, _, _)
NatModFrom(a, p, i, r) ==
    IF i = 0 THEN r ELSE NatModFrom(a, p, i - 1, (r * LimbBase + a[i]) % p)

NatModSmall(a, p) == NatModFrom(a, p, Len(a), 0)

RECURSIVE NatDivFrom(_, _, _, _)
NatDivFrom(a, p, i, r) ==
    IF i = 0 THEN << >>
    ELSE LET t == r * LimbBase + a[i]
         IN  NatDivFrom(a, p, i - 1, t % p) \o <<t \div p>>

\* a \div p for a small p
NatDivSmall(a, p) == NatTrim(NatDivFrom(a, p, Len(a), 0))

RECURSIVE NatPow(_, _)
NatPow(a, k) == IF k = 0 THEN NatOne ELSE NatMul(a, NatPow(a, k - 1))

(***************************************************************************)
(* Extended rationals: the element type of every tensor.                   *)
(***************************************************************************)
RECURSIVE Strip(_, _, _)
Strip(n, d, p) ==
    IF n # << >> /\ d # << >> /\ NatModSmall(n, p) = 0 /\ NatModSmall(d, p) = 0
    THEN Strip(NatDivSmall(n, p), NatDivSmall(d, p), p)
    ELSE <<n, d>>

\* The value s * n / d, with common factors 2 and 5 cancelled and one
\* representation for zero, for each infinity and for NaN.
Mk(s, n, d) ==
    IF n = << >> THEN [s |-> 1, n |-> << >>, d |-> IF d = << >> THEN << >> ELSE <<1>>]
    ELSE IF d = << >> THEN [s |-> s, n |-> <<1>>, d |-> << >>]
    ELSE IF d = <<1>> THEN [s |-> s, n |-> n, d |-> d]
    ELSE LET a == Strip(n, d, 2)
             b == Strip(a[1], a[2], 5)
         IN  [s |-> s, n |-> b[1], d |-> b[2]]

RZero == [s |-> 1, n |-> << >>, d |-> <<1>>]
ROne == [s |-> 1, n |-> <<1>>, d |-> <<1>>]
PosInf == [s |-> 1, n |-> <<1>>, d |-> << >>]
NegInf == [s |-> -1, n |-> <<1>>, d |-> << >>]
NaN == [s |-> 1, n |-> << >>, d |-> << >>]

IsNaN(x) == x.n = << >> /\ x.d = << >>
IsInf(x) == x.n # << >> /\ x.d = << >>
IsFinite(x) == x.d # << >>

\* the integer k, and the fraction p/q of two non-negative integers
RInt(k) == IF k < 0 THEN Mk(-1, NatFromInt(-k), NatOne) ELSE Mk(1, NatFromInt(k), NatOne)
RFrac(p, q) == Mk(1, NatFromInt(p), NatFromInt(q))

RNeg(x) == IF x.n = << >> THEN x ELSE [x EXCEPT !.s = -x.s]

RAdd(x, y) ==
    IF IsNaN(x) \/ IsNaN(y) THEN NaN
    ELSE IF IsInf(x) THEN (IF IsInf(y) /\ y.s # x.s THEN NaN ELSE x)
    ELSE IF IsInf(y) THEN y
    ELSE IF x.n = << >> THEN y
    ELSE IF y.n = << >> THEN x
    ELSE LET same == x.d = y.d
             a == IF same THEN x.n ELSE NatMul(x.n, y.d)
             b == IF same THEN y.n ELSE NatMul(y.n, x.d)
             d == IF same THEN x.d ELSE NatMul(x.d, y.d)
         IN  IF x.s = y.s THEN Mk(x.s, NatAdd(a, b), d)
             ELSE IF NatCmp(a, b) >= 0 THEN Mk(x.s, NatSub(a, b), d)
             ELSE Mk(y.s, NatSub(b, a), d)

RSub(x, y) == RAdd(x, RNeg(y))

RMul(x, y) ==
    IF IsNaN(x) \/ IsNaN(y) THEN NaN
    ELSE IF x = ROne THEN y
    ELSE IF y = ROne THEN x
    ELSE Mk(x.s * y.s, NatMul(x.n, y.n), NatMul(x.d, y.d))

RDiv(x, y) ==
    IF IsNaN(x) \/ IsNaN(y) THEN NaN
    ELSE IF y = ROne THEN x
    ELSE Mk(x.s * y.s, NatMul(x.n, y.d), NatMul(x.d, y.n))

\* -1, 0, 1 as x < y, x = y, x > y; neither argument is NaN
RCmp(x, y) ==
    IF x.s # y.s
    THEN (IF x.n = << >> /\ y.n = << >> THEN 0 ELSE IF x.s < y.s THEN -1 ELSE 1)
    ELSE IF IsInf(x) \/ IsInf(y)
    THEN (IF IsInf(x) /\ IsInf(y) THEN 0
          ELSE IF IsInf(x) THEN x.s ELSE -y.s)
    ELSE x.s * NatCmp(NatMul(x.n, y.d), NatMul(y.n, x.d))

REq(x, y) == ~IsNaN(x) /\ ~IsNaN(y) /\ RCmp(x, y) = 0
RLe(x, y) == ~IsNaN(x) /\ ~IsNaN(y) /\ RCmp(x, y) <= 0
RLt(x, y) == ~IsNaN(x) /\ ~IsNaN(y) /\ RCmp(x, y) < 0

RMaximum(x, y) ==
    IF IsNaN(x) \/ IsNaN(y) THEN NaN ELSE IF RCmp(x, y) >= 0 THEN x ELSE y

\* exp of a logit of k units: 10^k
RExp(x) ==
    IF IsNaN(x) THEN NaN
    ELSE IF IsInf(x) THEN (IF x.s = 1 THEN PosInf ELSE RZero)
    ELSE LET k == NatToInt(x.n)
         IN  IF x.s = 1 THEN Mk(1, NatPow(<<10>>, k), NatOne)
             ELSE Mk(1, NatOne, NatPow(<<10>>, k))

(***************************************************************************)
(* Tensors.  A (batch, T) tensor is a sequence of batch rows of length T;  *)
(* higher ranks nest further.  The operators below are the TensorFlow      *)
(* operations the notebook calls, restricted to the ranks it uses.         *)
(***************************************************************************)
Dim0(x) == Len(x)
Dim1(x) == IF Len(x) = 0 THEN 0 ELSE Len(x[1])

\* numpy broadcasting of one axis: equal sizes, or one of them 1
Broadcastable(m, n) == m = n \/ m = 1 \/ n = 1
BroadcastLen(m, n) == IF m = 1 THEN n ELSE m
Pick(x, i) == IF Len(x) = 1 THEN x[1] ELSE x[i]

Compatible2(x, y) ==
    /\ Broadcastable(Dim0(x), Dim0(y))
    /\ Broadcastable(Dim1(x), Dim1(y))

\* the elementwise operators the notebook applies: -, *, /
Binary(op, a, b) ==
    CASE op = "sub" -> RSub(a, b)
      [] op = "mul" -> RMul(a, b)
      [] op = "div" -> RDiv(a, b)

Elementwise1(op, x, y) ==
    [i \in 1..BroadcastLen(Len(x), Len(y)) |-> Binary(op, Pick(x, i), Pick(y, i))]

Elementwise2(op, x, y) ==
    [i \in 1..BroadcastLen(Len(x), Len(y)) |->
        Elementwise1(op, Pick(x, i), Pick(y, i))]

Elementwise3(op, x, y) ==
    [i \in 1..BroadcastLen(Len(x), Len(y)) |->
        Elementwise2(op, Pick(x, i), Pick(y, i))]

\* tf.exp of a rank 2 and of a rank 3 tensor
Exp2(x) == [i \in 1..Len(x) |-> [j \in 1..Len(x[i]) |-> RExp(x[i][j])]]
Exp3(x) == [i \in 1..Len(x) |-> Exp2(x[i])]

RECURSIVE SumSeq(_)
SumSeq(v) == IF v = << >> THEN RZero ELSE RAdd(SumSeq(SubSeq(v, 1, Len(v) - 1)), v[Len(v)])

RECURSIVE MaxSeq(_)
MaxSeq(v) ==
    IF Len(v) = 1 THEN v[1]
    ELSE RMaximum(MaxSeq(SubSeq(v, 1, Len(v) - 1)), v[Len(v)])

\* tf.pad(x, [[0, 0], [before, after]], constant_values=c); TensorFlow rejects
\* negative paddings ("Paddings must be non-negative")
PadRaises(before, after) == before < 0 \/ after < 0

Pad(x, before, after, c) ==
    [i \in 1..Len(x) |->
        [j \in 1..(before + Len(x[i]) + after) |->
            IF j <= before \/ j > before + Len(x[i]) THEN c ELSE x[i][j - before]]]

\* tf.expand_dims(x, -1) of a rank 2 tensor
ExpandDims(x) == [i \in 1..Len(x) |-> [j \in 1..Len(x[i]) |-> <<x[i][j]>>]]

\* x[..., 0] of a rank 3 tensor
LastIndex0(x) == [i \in 1..Len(x) |-> [j \in 1..Len(x[i]) |-> x[i][j][1]]]

\* tf.ones((k, 1, 1))
OnesFilter(k) == [i \in 1..k |-> << <<ROne>> >>]

\* tf.ones((b, t, w))
Ones3(b, t, w) == [i \in 1..b |-> [j \in 1..t |-> [k \in 1..w |-> ROne]]]

\* tf.nn.conv1d(x, filters, 1, padding='VALID'), one input and output channel
Conv1dValid(x, filters) ==
    [i \in 1..Len(x) |->
        [j \in 1..(Len(x[i]) - Len(filters) + 1) |->
            << SumSeq([k \in 1..Len(filters) |->
                        RMul(x[i][j + k - 1][1], filters[k][1][1])]) >>]]

\* tf.reshape(x, [batch, 1, length, 1]) of a rank 2 tensor
Reshape4(x) == [i \in 1..Len(x) |-> << [j \in 1..Len(x[i]) |-> <<x[i][j]>>] >>]

\* tf.nn.max_pool(x, [1, 1, w, 1], [1, 1, 1, 1], 'VALID')
MaxPoolValid(x, w) ==
    [i \in 1..Len(x) |->
        << [j \in 1..(Len(x[i][1]) - w + 1) |->
              << MaxSeq([k \in 1..w |-> x[i][1][j + k - 1][1]]) >>] >>]

\* x[:, 0, :, 0] of a rank 4 tensor
Index0And0(x) == [i \in 1..Len(x) |-> [j \in 1..Len(x[i][1]) |-> x[i][1][j][1]]]

\* tf.contrib.signal.frame(x, frame_length, 1, pad_end, pad_value) along the
\* last axis of a rank 2 tensor: (batch, L) -> (batch, frames, frame_length)
Frame(x, frame_length, pad_end, pad_value) ==
    [i \in 1..Len(x) |->
        [j \in 1..(IF pad_end THEN Len(x[i])
                   ELSE MaxOf(0, Len(x[i]) - frame_length + 1)) |->
            [k \in 1..frame_length |->
                IF j + k - 1 <= Len(x[i]) THEN x[i][j + k - 1] ELSE pad_value]]]

\* tf.reduce_sum(x, 2) of a rank 3 tensor
ReduceSum2(x) == [i \in 1..Len(x) |-> [j \in 1..Len(x[i]) |-> SumSeq(x[i][j])]]

\* tf.reduce_max(x, 1, keepdims=True) of a rank 2 tensor
ReduceMax1Keep(x) == [i \in 1..Len(x) |-> << MaxSeq(x[i]) >>]

(***************************************************************************)
(* The notebook's functions.                                               *)
(***************************************************************************)
ClampFloor == RFrac(1, 100000)

\* variant: the floor is not applied
Maximum2NoClamp(x, floor) == x

\* tf.maximum(x, floor) of a rank 2 tensor and a scalar
Maximum2(x, floor) ==
    [i \in 1..Len(x) |-> [j \in 1..Len(x[i]) |-> RMaximum(x[i][j], floor)]]

moving_sum_raises(x, back, forward) == PadRaises(back, forward)

\* variant: the two paddings exchanged
moving_sum_swapped(x, back, forward) ==
    LET x_padded == ExpandDims(Pad(x, forward, back, RZero))
        filters == OnesFilter(back + forward + 1)
        x_sum == Conv1dValid(x_padded, filters)
    IN  LastIndex0(x_sum)

moving_sum(x, back, forward) ==
    LET x_padded == ExpandDims(Pad(x, back, forward, RZero))
        filters == OnesFilter(back + forward + 1)
        x_sum == Conv1dValid(x_padded, filters)
    IN  LastIndex0(x_sum)

eff_softmax_exp(softmax_logits) ==
    LET shifted == Elementwise2("sub", softmax_logits, ReduceMax1Keep(softmax_logits))
    IN  Maximum2(Exp2(shifted), ClampFloor)

\* variant: a window of chunk_size + 1 positions
eff_softmax_denominators_wide(chunk_size, softmax_logits) ==
    moving_sum(eff_softmax_exp(softmax_logits), chunk_size, 0)

eff_softmax_denominators(chunk_size, softmax_logits) ==
    moving_sum(eff_softmax_exp(softmax_logits), chunk_size - 1, 0)

\* variant: the arguments are checked at the boundary
efficient_raises_checked(chunk_size, emit_probs, softmax_logits) ==
    \/ chunk_size <= 0
    \/ Dim0(emit_probs) # Dim0(softmax_logits)
    \/ Dim1(emit_probs) # Dim1(softmax_logits)

efficient_raises(chunk_size, emit_probs, softmax_logits) ==
    \/ moving_sum_raises(softmax_logits, chunk_size - 1, 0)
    \/ ~Compatible2(emit_probs, softmax_logits)

\* variant: the forward window holds chunk_size + 1 positions
efficient_forward_wide(chunk_size, emit_probs, softmax_logits) ==
    LET softmax_exp == eff_softmax_exp(softmax_logits)
        softmax_denominators == eff_softmax_denominators(chunk_size, softmax_logits)
    IN  Elementwise2("mul", softmax_exp,
            moving_sum(Elementwise2("div", emit_probs, softmax_denominators),
                       0, chunk_size))

\* variant: the second window looks backward
efficient_backward(chunk_size, emit_probs, softmax_logits) ==
    LET softmax_exp == eff_softmax_exp(softmax_logits)
        softmax_denominators == eff_softmax_denominators(chunk_size, softmax_logits)
    IN  Elementwise2("mul", softmax_exp,
            moving_sum(Elementwise2("div", emit_probs, softmax_denominators),
                       chunk_size - 1, 0))

efficient_chunkwise_attention(chunk_size, emit_probs, softmax_logits) ==
    LET softmax_exp == eff_softmax_exp(softmax_logits)
        softmax_denominators == eff_softmax_denominators(chunk_size, softmax_logits)
        probs == Elementwise2("mul", softmax_exp,
                     moving_sum(Elementwise2("div", emit_probs, softmax_denominators),
                                0, chunk_size - 1))
    IN  probs

moving_max_raises(x, w) == PadRaises(w - 1, 0)

\* variant: padding with the default constant 0
moving_max_zero_pad(x, w) ==
    LET padded == Pad(x, w - 1, 0, RZero)
        pooled == MaxPoolValid(Reshape4(padded), w)
    IN  Index0And0(pooled)

moving_max(x, w) ==
    LET padded == Pad(x, w - 1, 0, NegInf)
        pooled == MaxPoolValid(Reshape4(padded), w)
    IN  Index0And0(pooled)

stable_logits_max(chunk_size, softmax_logits) == moving_max(softmax_logits, chunk_size)

\* variant: the logits padded with the default constant 0
stable_framed_logits_zero_pad(chunk_size, softmax_logits) ==
    LET padded_logits == Pad(softmax_logits, chunk_size - 1, 0, RZero)
        framed_logits == Frame(padded_logits, chunk_size, FALSE, RZero)
    IN  Elementwise3("sub", framed_logits,
                     ExpandDims(stable_logits_max(chunk_size, softmax_logits)))

stable_framed_logits(chunk_size, softmax_logits) ==
    LET padded_logits == Pad(softmax_logits, chunk_size - 1, 0, NegInf)
        framed_logits == Frame(padded_logits, chunk_size, FALSE, RZero)
    IN  Elementwise3("sub", framed_logits,
                     ExpandDims(stable_logits_max(chunk_size, softmax_logits)))

stable_softmax_denominators(chunk_size, softmax_logits) ==
    ReduceSum2(Exp3(stable_framed_logits(chunk_size, softmax_logits)))

\* variant: the denominators padded with the default constant 0
stable_framed_denominators_zero_pad(chunk_size, softmax_logits) ==
    Frame(stable_softmax_denominators(chunk_size, softmax_logits),
          chunk_size, TRUE, RZero)

stable_framed_denominators(chunk_size, softmax_logits) ==
    Frame(stable_softmax_denominators(chunk_size, softmax_logits),
          chunk_size, TRUE, PosInf)

\* variant: the chunk maxima are not subtracted
stable_copied_logits_unshifted(chunk_size, softmax_logits) ==
    Elementwise3("mul", ExpandDims(softmax_logits),
                 Ones3(Dim0(softmax_logits), Dim1(softmax_logits), chunk_size))

stable_copied_logits(chunk_size, softmax_logits) ==
    LET batch_size == Dim0(softmax_logits)
        seq_len == Dim1(softmax_logits)
        copied_logits == Elementwise3("mul", ExpandDims(softmax_logits),
                                      Ones3(batch_size, seq_len, chunk_size))
        framed_max == Frame(stable_logits_max(chunk_size, softmax_logits),
                            chunk_size, TRUE, PosInf)
    IN  Elementwise3("sub", copied_logits, framed_max)

stable_softmax_numerators(chunk_size, softmax_logits) ==
    Exp3(stable_copied_logits(chunk_size, softmax_logits))

stable_framed_probs(chunk_size, emit_probs) == Frame(emit_probs, chunk_size, TRUE, RZero)

\* the summands framed_probs * softmax_numerators / framed_denominators
stable_terms(chunk_size, emit_probs, softmax_logits) ==
    Elementwise3("div",
        Elementwise3("mul", stable_framed_probs(chunk_size, emit_probs),
                     stable_softmax_numerators(chunk_size, softmax_logits)),
        stable_framed_denominators(chunk_size, softmax_logits))

stable_raises(chunk_size, emit_probs, softmax_logits) ==
    \/ moving_max_raises(softmax_logits, chunk_size)
    \/ ~Compatible2(emit_probs, softmax_logits)

stable_chunkwise_attention(chunk_size, emit_probs, softmax_logits) ==
    ReduceSum2(stable_terms(chunk_size, emit_probs, softmax_logits))

(***************************************************************************)
(* State.  The demo cell holds two variables, the two graphs built over    *)
(* them and the values fetched for them; it runs both graphs, lowers a     *)
(* slice of row 0 of the logits by a huge amount and runs them again.      *)
(* moving_sum and moving_max are also called on their own, on an array x.  *)
(***************************************************************************)
VARIABLES
    chunk_size,       \* CHUNK_SIZE
    emit_probs,       \* the variable emit_probs
    softmax_logits,   \* the variable softmax_logits
    option_1,         \* the graph of efficient_chunkwise_attention: "none", "op" or the error raised
    option_2,         \* the graph of stable_chunkwise_attention, likewise
    out_1,            \* the last value fetched for option_1 (<< >> before the first run)
    out_2,            \* the last value fetched for option_2
    pc,               \* "vars", "ran", "assigned", "reran"; "prim" for direct calls
    x,                \* the argument of a direct call of moving_sum or moving_max
    call              \* the last direct call and what it returned

vars == <<chunk_size, emit_probs, softmax_logits, option_1, option_2, out_1, out_2, pc, x, call>>

demo_vars == <<chunk_size, emit_probs, softmax_logits, option_1, option_2, out_1, out_2, pc>>

MaxT == 3
MaxW == 3
Huge == 5

NoCall == [fn |-> "none", back |-> 0, forward |-> 0, w |-> 0, ret |-> << >>]

Reverse(row) == [j \in 1..Len(row) |-> row[Len(row) + 1 - j]]

\* logits of small dynamic range
LogitVals == {RInt(0), RInt(1)}
LogitRows(T) == [1..T -> LogitVals]

\* a positive row summing to 1: 1/2, 1/4, ..., 1/2^(T-1), 1/2^(T-1)
Geometric(T) == [j \in 1..T |-> RFrac(1, 2 ^ MinOf(j, T - 1))]
\* hard monotonic attention: all mass on position p
OneHot(T, p) == [j \in 1..T |-> IF j = p THEN ROne ELSE RZero]
\* a positive row that is not normalised
Halves(T) == [j \in 1..T |-> RFrac(1, 2)]

EmitRows(T) == {Geometric(T), Halves(T), OneHot(T, 1)}

\* a batch of one row, or of a row and its mirror image
Batches(row) == {<<row>>, <<row, Reverse(row)>>}

DemoStart ==
    /\ option_1 = "none"
    /\ option_2 = "none"
    /\ out_1 = << >>
    /\ out_2 = << >>
    /\ pc = "vars"
    /\ x = << >>
    /\ call = NoCall

Init ==
    /\ chunk_size \in 1..MaxW
    /\ \E T \in 1..MaxT :
         \E a \in EmitRows(T), u \in LogitRows(T) :
           \E b \in 1..2 :
             /\ emit_probs = IF b = 1 THEN <<a>> ELSE <<a, Reverse(a)>>
             /\ softmax_logits = IF b = 1 THEN <<u>> ELSE <<u, Reverse(u)>>
    /\ DemoStart

\* option_1 = efficient_chunkwise_attention(CHUNK_SIZE, emit_probs, softmax_logits)
BuildEfficient ==
    /\ pc = "vars"
    /\ option_1 = "none"
    /\ option_1' = IF efficient_raises(chunk_size, emit_probs, softmax_logits)
                   THEN "InvalidArgument" ELSE "op"
    /\ UNCHANGED <<chunk_size, emit_probs, softmax_logits, option_2, out_1, out_2, pc, x, call>>

\* option_2 = stable_chunkwise_attention(CHUNK_SIZE, emit_probs, softmax_logits)
BuildStable ==
    /\ pc = "vars"
    /\ option_2 = "none"
    /\ option_2' = IF stable_raises(chunk_size, emit_probs, softmax_logits)
                   THEN "InvalidArgument" ELSE "op"
    /\ UNCHANGED <<chunk_size, emit_probs, softmax_logits, option_1, out_1, out_2, pc, x, call>>

\* out_1, out_2 = sess.run([option_1, option_2])
SessRun ==
    /\ pc \in {"vars", "assigned"}
    /\ option_1 = "op"
    /\ option_2 = "op"
    /\ out_1' = efficient_chunkwise_attention(chunk_size, emit_probs, softmax_logits)
    /\ out_2' = stable_chunkwise_attention(chunk_size, emit_probs, softmax_logits)
    /\ pc' = IF pc = "vars" THEN "ran" ELSE "reran"
    /\ UNCHANGED <<chunk_size, emit_probs, softmax_logits, option_1, option_2, x, call>>

\* softmax_logits_data[0, lo:hi] -= 1e10; sess.run(softmax_logits.assign(...)):
\* a slice of one or two entries of row 0, as the demo's 5:7
AssignLogits ==
    /\ pc = "ran"
    /\ \E lo \in 1..Dim1(softmax_logits) :
         \E hi \in lo..MinOf(lo + 1, Dim1(softmax_logits)) :
           softmax_logits' =
             [softmax_logits EXCEPT ![1] =
                [j \in 1..Len(@) |->
                    IF lo <= j /\ j <= hi THEN RSub(@[j], RInt(Huge)) ELSE @[j]]]
    /\ pc' = "assigned"
    /\ UNCHANGED <<chunk_size, emit_probs, option_1, option_2, out_1, out_2, x, call>>

Next == BuildEfficient \/ BuildStable \/ SessRun \/ AssignLogits

Spec == Init /\ [][Next]_vars

(***************************************************************************)
(* Direct calls of the two sliding-window primitives.                      *)
(***************************************************************************)
PrimVals == {RInt(-1), RZero, RFrac(1, 2)}
PrimRows(T) == [1..T -> PrimVals]

InitPrim ==
    /\ \E T \in 1..MaxT : \E r \in PrimRows(T) : x \in Batches(r)
    /\ call = NoCall
    /\ chunk_size = 1
    /\ emit_probs = << >>
    /\ softmax_logits = << >>
    /\ option_1 = "none"
    /\ option_2 = "none"
    /\ out_1 = << >>
    /\ out_2 = << >>
    /\ pc = "prim"

CallMovingSum ==
    /\ pc = "prim"
    /\ call.fn = "none"
    /\ \E back \in 0..MaxW, forward \in 0..MaxW :
         call' = [fn |-> "moving_sum", back |-> back, forward |-> forward, w |-> 0,
                  ret |-> moving_sum(x, back, forward)]
    /\ UNCHANGED <<demo_vars, x>>

CallMovingMax ==
    /\ pc = "prim"
    /\ call.fn = "none"
    /\ \E w \in 1..(MaxW + 1) :
         call' = [fn |-> "moving_max", back |-> 0, forward |-> 0, w |-> w,
                  ret |-> moving_max(x, w)]
    /\ UNCHANGED <<demo_vars, x>>

NextPrim == CallMovingSum \/ CallMovingMax

SpecPrim == InitPrim /\ [][NextPrim]_vars

(***************************************************************************)
(* The demo cell started on arguments the functions do not expect: a       *)
(* chunk_size that is not positive, or emit_probs and softmax_logits of    *)
(* different shapes.                                                       *)
(***************************************************************************)
SameShape(a, b) == Dim0(a) = Dim0(b) /\ Dim1(a) = Dim1(b)

Malformed == chunk_size <= 0 \/ ~SameShape(emit_probs, softmax_logits)

ArgBatches(row) == {<<row>>, <<row, row>>}

InitArgs ==
    /\ chunk_size \in -1..2
    /\ \E Ta \in 1..MaxT, Tu \in 1..MaxT :
         \E a \in {Geometric(Ta)}, u \in {[j \in 1..Tu |-> RInt(j % 2)]} :
           /\ emit_probs \in ArgBatches(a)
           /\ softmax_logits \in ArgBatches(u)
    /\ Malformed
    /\ DemoStart

SpecArgs == InitArgs /\ [][Next]_vars

(***************************************************************************)
(* Reference values: the formulas of the notebook's text, computed         *)
(* position by position with explicit index ranges.                        *)
(***************************************************************************)
RECURSIVE SumRange(_, _, _)
SumRange(row, lo, hi) ==
    IF lo > hi THEN RZero ELSE RAdd(row[lo], SumRange(row, lo + 1, hi))

\* the sum of row[m] over lo <= m <= hi, positions outside the row left out
WindowSum(row, lo, hi) == SumRange(row, MaxOf(lo, 1), MinOf(hi, Len(row)))

RECURSIVE MaxRange(_, _, _)
MaxRange(row, lo, hi) ==
    IF lo >= hi THEN row[lo]
    ELSE LET rest == MaxRange(row, lo + 1, hi)
         IN  IF RCmp(row[lo], rest) >= 0 THEN row[lo] ELSE rest

\* the maximum of row[m] over lo <= m <= hi, positions outside the row left out
WindowMax(row, lo, hi) == MaxRange(row, MaxOf(lo, 1), MinOf(hi, Len(row)))

RECURSIVE BetaFrom(_, _, _, _, _)
BetaFrom(w, a, e, j, k) ==
    IF k > MinOf(j + w - 1, Len(e)) THEN RZero
    ELSE RAdd(RDiv(RMul(a[k], e[j]), WindowSum(e, k - w + 1, k)),
              BetaFrom(w, a, e, j, k + 1))

\* beta[j] = sum_{k=j}^{j+w-1} a[k] * e[j] / sum_{l=k-w+1}^{k} e[l] for the
\* exponentials e, positions outside the row left out
Beta(w, a, e) == [j \in 1..Len(e) |-> BetaFrom(w, a, e, j, j)]

RECURSIVE TruncatedFrom(_, _, _, _)
TruncatedFrom(a, e, j, k) ==
    IF k > Len(e) THEN RZero
    ELSE RAdd(RDiv(RMul(a[k], e[j]), SumRange(e, 1, k)), TruncatedFrom(a, e, j, k + 1))

\* sum_{k=j}^{T} a[k] * e[j] / sum_{l=1}^{k} e[l]
Truncated(a, e) == [j \in 1..Len(e) |-> TruncatedFrom(a, e, j, j)]

ExpRow(u) == [j \in 1..Len(u) |-> RExp(u[j])]

RowEq(r1, r2) == Len(r1) = Len(r2) /\ \A j \in 1..Len(r1) : REq(r1[j], r2[j])

TensorEq(t1, t2) == Len(t1) = Len(t2) /\ \A i \in 1..Len(t1) : RowEq(t1[i], t2[i])

\* exp(u[j] - max u) of a row, before the clamp
ShiftedExp(u, j) == RExp(RSub(u[j], MaxSeq(u)))

ClampInactive(u) == \A j \in 1..Len(u) : RLe(ClampFloor, ShiftedExp(u, j))
ClampActive(u) == \E j \in 1..Len(u) : RLt(ShiftedExp(u, j), ClampFloor)

Positive(a) == \A j \in 1..Len(a) : RLt(RZero, a[j])
InUnit(a) == \A j \in 1..Len(a) : RLe(RZero, a[j]) /\ RLe(a[j], ROne)
Normalised(a) == InUnit(a) /\ REq(SumSeq(a), ROne)

Rows == 1..Dim0(softmax_logits)
SeqLen == Dim1(softmax_logits)

\* both outputs are those of the current inputs
Fresh == pc \in {"ran", "reran"}

(***************************************************************************)
(* Claims.                                                                 *)
(***************************************************************************)

\* C1: for every chunk_size >= 1 and every row of the logits on which the
\* clamp of efficient_chunkwise_attention is inactive
\* (exp(u[i,j] - max u[i,:]) >= 1e-5 for all j), the efficient and the stable
\* function return the same value at every position of that row.
C1_EfficientEqualsStable ==
    Fresh =>
      \A i \in Rows :
        ClampInactive(softmax_logits[i]) => RowEq(out_1[i], out_2[i])

\* a second run after the assignment, chunks of several positions, a logit
\* exactly at the floor and no clamp active
C1_Witness ==
    /\ pc = "reran"
    /\ chunk_size >= 2
    /\ SeqLen >= 2
    /\ \A i \in Rows : ClampInactive(softmax_logits[i])
    /\ \E j \in 1..SeqLen : REq(ShiftedExp(softmax_logits[1], j), ClampFloor)
    /\ TensorEq(out_1, out_2)

\* C2 as stated: on a row some of whose logits fall below the clamp floor and
\* whose emit_probs are positive, the two functions differ at some position,
\* and the stable output equals the exact chunkwise formula.
C2_Original ==
    Fresh =>
      \A i \in Rows :
        (ClampActive(softmax_logits[i]) /\ Positive(emit_probs[i])) =>
          /\ \E j \in 1..SeqLen : ~REq(out_1[i][j], out_2[i][j])
          /\ RowEq(out_2[i], Beta(chunk_size, emit_probs[i], ExpRow(softmax_logits[i])))

\* C2 amended: the two functions differ on such a row when chunk_size >= 2
\* (with chunk_size = 1 both return emit_probs); the stable output equals
\* the exact chunkwise formula for every chunk_size.
C2_DivergeWhenClamped ==
    Fresh =>
      \A i \in Rows :
        (ClampActive(softmax_logits[i]) /\ Positive(emit_probs[i])) =>
          /\ chunk_size >= 2 => \E j \in 1..SeqLen : ~REq(out_1[i][j], out_2[i][j])
          /\ RowEq(out_2[i], Beta(chunk_size, emit_probs[i], ExpRow(softmax_logits[i])))

C2_Witness ==
    /\ pc = "reran"
    /\ chunk_size >= 2
    /\ ClampActive(softmax_logits[1])
    /\ Positive(emit_probs[1])
    /\ \E j \in 1..SeqLen : RLt(out_2[1][j], out_1[1][j])

\* C3: moving_sum(x, back, forward), back and forward >= 0 (0 and values >= T
\* included), has the shape of x and output[i,j] is the sum of x[i,m] over
\* j-back <= m <= j+forward, positions outside the row counting zero;
\* moving_sum(x, 0, 0) = x.
C3_MovingSum ==
    call.fn = "moving_sum" =>
      /\ SameShape(call.ret, x)
      /\ \A i \in 1..Dim0(x) : \A j \in 1..Dim1(x) :
           REq(call.ret[i][j], WindowSum(x[i], j - call.back, j + call.forward))
      /\ (call.back = 0 /\ call.forward = 0) => TensorEq(call.ret, x)

\* both bounds reach past the row, and the row has a negative entry
C3_Witness ==
    /\ call.fn = "moving_sum"
    /\ Dim1(x) >= 2
    /\ call.back >= Dim1(x)
    /\ call.forward >= Dim1(x)
    /\ \E j \in 1..Dim1(x) : RLt(x[1][j], RZero)
    /\ \A j \in 1..Dim1(x) : REq(call.ret[1][j], SumSeq(x[1]))

\* C4: moving_max(x, w), x finite and w >= 1 (w > T included), has the shape
\* of x and output[i,j] is the maximum of x[i,m] over max(0, j-w+1) <= m <= j;
\* the -inf padding never shows in the result and positions outside the row
\* never count as zero; moving_max(x, 1) = x.
C4_MovingMax ==
    call.fn = "moving_max" =>
      /\ SameShape(call.ret, x)
      /\ \A i \in 1..Dim0(x) : \A j \in 1..Dim1(x) :
           /\ IsFinite(call.ret[i][j])
           /\ REq(call.ret[i][j], WindowMax(x[i], j - call.w + 1, j))
      /\ call.w = 1 => TensorEq(call.ret, x)

\* a window longer than the row, over a row that starts negative
C4_Witness ==
    /\ call.fn = "moving_max"
    /\ call.w > Dim1(x)
    /\ Dim1(x) >= 2
    /\ RLt(x[1][1], RZero)
    /\ RLt(call.ret[1][1], RZero)
    /\ RLt(x[1][1], call.ret[1][Dim1(x)])

\* C5: with chunk_size = 1, for logits of any range (rows with the clamp
\* active included), both functions return emit_probs at every position.
C5_ChunkOfOne ==
    (Fresh /\ chunk_size = 1) =>
      /\ TensorEq(out_1, emit_probs)
      /\ TensorEq(out_2, emit_probs)

C5_Witness ==
    /\ pc = "reran"
    /\ chunk_size = 1
    /\ SeqLen >= 2
    /\ ClampActive(softmax_logits[1])
    /\ Positive(emit_probs[1])
    /\ TensorEq(out_1, emit_probs)
    /\ TensorEq(out_2, emit_probs)

\* C6: for emit_probs with entries in [0,1] and rows summing to 1 and finite
\* logits, both functions return an array of the shape of the inputs with
\* every entry in [0,1].
C6_OutputsInUnitInterval ==
    Fresh =>
      /\ SameShape(out_1, emit_probs)
      /\ SameShape(out_2, emit_probs)
      /\ \A i \in Rows :
           Normalised(emit_probs[i]) => (InUnit(out_1[i]) /\ InUnit(out_2[i]))

C6_Witness ==
    /\ pc = "reran"
    /\ chunk_size >= 2
    /\ Dim0(out_1) = 2
    /\ \A i \in Rows : Normalised(emit_probs[i]) /\ Positive(emit_probs[i])
    /\ ClampActive(softmax_logits[1])
    /\ \A i \in Rows : InUnit(out_1[i]) /\ InUnit(out_2[i])

C8_StableIsSafe ==
    Fresh =>
      \A copied \in {stable_copied_logits(chunk_size, softmax_logits)} :
      \A numerators \in {stable_softmax_numerators(chunk_size, softmax_logits)} :
      \A denominators \in {stable_softmax_denominators(chunk_size, softmax_logits)} :
      \A terms \in {stable_terms(chunk_size, emit_probs, softmax_logits)} :
        \A i \in Rows : \A j \in 1..SeqLen :
          /\ RLe(ROne, denominators[i][j])
          /\ RLe(denominators[i][j], RInt(chunk_size))
          /\ \A t \in 1..chunk_size :
               IF j + t - 1 <= SeqLen
               THEN /\ RLe(copied[i][j][t], RZero)
                    /\ RLe(RZero, numerators[i][j][t])
                    /\ RLe(numerators[i][j][t], ROne)
                    /\ IsFinite(terms[i][j][t])
               ELSE terms[i][j][t] = RZero

C8_Witness ==
    /\ pc = "reran"
    /\ chunk_size >= 2
    /\ SeqLen >= 2
    /\ ClampActive(softmax_logits[1])
    /\ Positive(emit_probs[1])
    /\ stable_terms(chunk_size, emit_probs, softmax_logits)[1][SeqLen][2] = RZero
    /\ RLt(ROne, stable_softmax_denominators(chunk_size, softmax_logits)[1][SeqLen])

\* C9: with chunk_size >= T both functions return an array of shape
\* (batch, T) and output[i,j] = sum_{k=j}^{T-1} alpha[i,k] * e(u[i,j]) /
\* sum_{l=0}^{k} e(u[i,l]), e being the function's own exponential, the
\* padding contributing nothing; at chunk end 0 the denominator covers the
\* single logit u[i,0].
C9_ChunkCoversSequence ==
    (Fresh /\ chunk_size >= SeqLen) =>
      /\ SameShape(out_1, softmax_logits)
      /\ SameShape(out_2, softmax_logits)
      /\ \A softmax_exp \in {eff_softmax_exp(softmax_logits)} :
         \A eff_denominators \in {eff_softmax_denominators(chunk_size, softmax_logits)} :
         \A denominators \in {stable_softmax_denominators(chunk_size, softmax_logits)} :
           \A i \in Rows :
             \A e \in {ExpRow(softmax_logits[i])} :
               /\ RowEq(out_1[i], Truncated(emit_probs[i], softmax_exp[i]))
               /\ RowEq(out_2[i], Truncated(emit_probs[i], e))
               /\ REq(eff_denominators[i][1], softmax_exp[i][1])
               /\ REq(denominators[i][1], ROne)

C9_Witness ==
    /\ pc = "reran"
    /\ SeqLen >= 2
    /\ chunk_size > SeqLen
    /\ Positive(emit_probs[1])
    /\ ClampActive(softmax_logits[1])
    /\ RowEq(out_2[1], Truncated(emit_probs[1], ExpRow(softmax_logits[1])))

\* C10: for every chunk_size >= 1, every emit_probs and finite logits, each
\* row of the output sums to what the row of emit_probs sums to, for the
\* stable function and for the efficient one, its clamp active or not.
C10_MassConserved ==
    Fresh =>
      \A i \in Rows :
        /\ REq(SumSeq(out_1[i]), SumSeq(emit_probs[i]))
        /\ REq(SumSeq(out_2[i]), SumSeq(emit_probs[i]))

C10_Witness ==
    /\ pc = "reran"
    /\ chunk_size >= 2
    /\ SeqLen >= 3
    /\ ClampActive(softmax_logits[1])
    /\ Positive(emit_probs[1])
    /\ ~Normalised(emit_probs[1])
    /\ ~RowEq(out_1[1], emit_probs[1])
    /\ REq(SumSeq(out_1[1]), SumSeq(emit_probs[1]))

====
